---- MODULE Spec2Model ----
(***************************************************************************)
(* Asset ingestion and metadata upsert of the cursed-cms server:           *)
(* routes/asset.routes.ts (HTTP handlers), controllers/asset.controller.ts *)
(* (AssetController.ingestAsset, AssetController.upsertMetadata), the      *)
(* MinIO and Redis client wrappers and the Prisma tables assets and        *)
(* asset_meta_base.                                                        *)
(*                                                                         *)
(* A JavaScript string is a sequence of one-character strings, so that     *)
(* replace, toLowerCase, extname and join are computed character by        *)
(* character.  A uuid is a one-element sequence holding an opaque token.   *)
(* An optional value (null | x) is the sequence <<>> or <<x>>.  A request  *)
(* body is a function whose domain holds the keys that were sent.          *)
(***************************************************************************)
EXTENDS Naturals, Sequences, FiniteSets, TLC

VARIABLES
    calls,      \* the requests received so far, in order of arrival, each with its handler's position
    objects,    \* the bucket: the set of stored objects [name, data, size, contentType]
    assets,     \* table assets: the set of rows
    metas,      \* table asset_meta_base: the set of rows
    published,  \* the messages published on Redis, in order
    nextUuid,   \* the number of uuids crypto.randomUUID has handed out, plus one
    nextMetaId, \* the number of asset_meta_base ids the database has handed out, plus one
    minio       \* the MinioClient singleton, the bucket's existence, and the callers of its methods

vars == <<calls, objects, assets, metas, published, nextUuid, nextMetaId, minio>>

-----------------------------------------------------------------------------
(* Bounds *)

\* the number of requests the server receives in one behaviour of Spec
MaxCalls == 2
\* the longest location name and date label drawn for SpecIngest
MaxLen == 3
\* the number of calls of MinioClient methods in one behaviour of SpecMinio
MaxCallers == 3

-----------------------------------------------------------------------------
(* Strings *)

UpperChars == <<"A","B","C","D","E","F","G","H","I","J","K","L","M",
                "N","O","P","Q","R","S","T","U","V","W","X","Y","Z">>
LowerChars == <<"a","b","c","d","e","f","g","h","i","j","k","l","m",
                "n","o","p","q","r","s","t","u","v","w","x","y","z">>
DigitChars == {"0","1","2","3","4","5","6","7","8","9"}
\* the characters the regular expression class \s matches, among those used here
WhitespaceChars == {" ", "\t", "\n"}

IsWhitespace(c) == c \in WhitespaceChars
IsDigit(c) == c \in DigitChars

ToLowerChar(c) ==
    IF \E i \in 1..Len(UpperChars) : UpperChars[i] = c
    THEN LowerChars[CHOOSE i \in 1..Len(UpperChars) : UpperChars[i] = c]
    ELSE c

\* String.prototype.toLowerCase
ToLowerCase(s) == [i \in 1..Len(s) |-> ToLowerChar(s[i])]

RECURSIVE SkipWhitespace(_)
SkipWhitespace(s) ==
    IF s # <<>> /\ IsWhitespace(Head(s)) THEN SkipWhitespace(Tail(s)) ELSE s

\* s.replace(/\s/g, '_') : every whitespace character becomes an underscore
ReplaceEachWhitespace(s) == [i \in 1..Len(s) |-> IF IsWhitespace(s[i]) THEN "_" ELSE s[i]]

\* s.replace(/\s+/g, '_') : the scan replaces each maximal match of \s+ by '_'
RECURSIVE ReplaceWhitespaceRuns(_)
ReplaceWhitespaceRuns(s) ==
    IF s = <<>> THEN <<>>
    ELSE IF IsWhitespace(Head(s))
         THEN <<"_">> \o ReplaceWhitespaceRuns(SkipWhitespace(Tail(s)))
         ELSE <<Head(s)>> \o ReplaceWhitespaceRuns(Tail(s))

\* s.replace(/[^0-9]/g, '')
RemoveNonDigits(s) == SelectSeq(s, IsDigit)

\* Array.prototype.join
RECURSIVE Join(_, _)
Join(parts, sep) ==
    IF parts = <<>> THEN <<>>
    ELSE IF Len(parts) = 1 THEN parts[1]
    ELSE parts[1] \o sep \o Join(Tail(parts), sep)

\* the greatest index of character ch in s, 0 when there is none
LastIndexOf(s, ch) ==
    IF \E i \in 1..Len(s) : s[i] = ch
    THEN CHOOSE i \in 1..Len(s) : s[i] = ch /\ \A j \in (i+1)..Len(s) : s[j] # ch
    ELSE 0

RECURSIVE StripTrailingSlashes(_)
StripTrailingSlashes(p) ==
    IF p # <<>> /\ p[Len(p)] = "/" THEN StripTrailingSlashes(SubSeq(p, 1, Len(p) - 1)) ELSE p

\* path.basename(p) (posix): the last component, trailing slashes ignored
BaseName(p) ==
    LET q == StripTrailingSlashes(p)
    IN  SubSeq(q, LastIndexOf(q, "/") + 1, Len(q))

\* path.extname(p) (posix): from the last '.' of the last component to its end;
\* '' when there is no '.', when the only '.' starts the component, and for '..'
ExtName(p) ==
    LET base == BaseName(p)
        startDot == LastIndexOf(base, ".")
    IN  IF startDot = 0 \/ startDot = 1 THEN <<>>
        ELSE IF base[1] = "." /\ startDot = Len(base) /\ startDot = 2 THEN <<>>
        ELSE SubSeq(base, startDot, Len(base))

\* s.replace('.', '') : a string pattern replaces the first occurrence only
RemoveFirstDot(s) ==
    IF \E i \in 1..Len(s) : s[i] = "."
    THEN LET k == CHOOSE i \in 1..Len(s) : s[i] = "." /\ \A j \in 1..(i-1) : s[j] # "."
         IN  SubSeq(s, 1, k - 1) \o SubSeq(s, k + 1, Len(s))
    ELSE s

\* all strings over alphabet of length at most n
StringsUpTo(alphabet, n) == UNION {[1..k -> alphabet] : k \in 0..n}

-----------------------------------------------------------------------------
(* Literals *)

Slash == <<"/">>
AssetsDir == <<"a","s","s","e","t","s">>
UnclassifiedDir == <<"u","n","c","l","a","s","s","i","f","i","e","d">>
Undated == <<"u","n","d","a","t","e","d">>

\* the five metadata fields, in the order the handlers list them
MetaFields == <<"asset_type", "asset_class", "asset_location_name",
                "asset_camera", "asset_date_label">>
MetaFieldSet == {MetaFields[i] : i \in 1..Len(MetaFields)}

\* the n-th value of crypto.randomUUID(): fresh, distinct from every other
\* a generator that hands out one and the same uuid
UuidFixed(n) == <<"uuid-1">>

Uuid(n) == <<"uuid-" \o ToString(n)>>
\* the n-th id the database gives an asset_meta_base row (@default(uuid()))
MetaId(n) == <<"meta-" \o ToString(n)>>

StatusOk == 200
StatusBadRequest == 400
StatusNotFound == 404
StatusServerError == 500

-----------------------------------------------------------------------------
(* Path derivation, AssetController.ingestAsset *)

\* an upload path that replaces every whitespace character, not every run
StoredPathEachWhitespace(assetUuid, fileName, metaData) ==
    LET storedFilename == assetUuid \o ExtName(fileName)
    IN  IF metaData # <<>>
        THEN LET m == metaData[1]
                 datePart == RemoveNonDigits(m.asset_date_label)
                 metaPath == Join(<< m.asset_type,
                                     m.asset_class,
                                     ToLowerCase(ReplaceEachWhitespace(m.asset_location_name)),
                                     ToLowerCase(ReplaceEachWhitespace(m.asset_camera)),
                                     IF datePart # <<>> THEN datePart ELSE Undated >>, Slash)
             IN  AssetsDir \o Slash \o metaPath \o Slash \o storedFilename
        ELSE AssetsDir \o Slash \o UnclassifiedDir \o Slash \o storedFilename

\* an upload path whose camera segment keeps letters and digits only, as
\* PathUtils.generateFilename shortens the camera
StoredPathCameraAlnum(assetUuid, fileName, metaData) ==
    LET storedFilename == assetUuid \o ExtName(fileName)
        IsAlnum(ch) == ch \in DigitChars \/ \E i \in 1..Len(UpperChars) : ch \in {UpperChars[i], LowerChars[i]}
    IN  IF metaData # <<>>
        THEN LET m == metaData[1]
                 datePart == RemoveNonDigits(m.asset_date_label)
                 metaPath == Join(<< m.asset_type,
                                     m.asset_class,
                                     ToLowerCase(ReplaceWhitespaceRuns(m.asset_location_name)),
                                     ToLowerCase(SelectSeq(m.asset_camera, IsAlnum)),
                                     IF datePart # <<>> THEN datePart ELSE Undated >>, Slash)
             IN  AssetsDir \o Slash \o metaPath \o Slash \o storedFilename
        ELSE AssetsDir \o Slash \o UnclassifiedDir \o Slash \o storedFilename

\* lines 70-87: the object name the file is uploaded to
StoredPath(assetUuid, fileName, metaData) ==
    LET fileExtension == ExtName(fileName)
        storedFilename == assetUuid \o fileExtension
    IN  IF metaData # <<>>
        THEN LET m == metaData[1]
                 datePart == RemoveNonDigits(m.asset_date_label)
                 metaPath == Join(<< m.asset_type,
                                     m.asset_class,
                                     ToLowerCase(ReplaceWhitespaceRuns(m.asset_location_name)),
                                     ToLowerCase(ReplaceWhitespaceRuns(m.asset_camera)),
                                     IF datePart # <<>> THEN datePart ELSE Undated >>, Slash)
             IN  AssetsDir \o Slash \o metaPath \o Slash \o storedFilename
        ELSE AssetsDir \o Slash \o UnclassifiedDir \o Slash \o storedFilename

\* a cleanup that always takes the unclassified branch
CleanupPathUnclassified(assetUuid, fileName, metaData) ==
    AssetsDir \o Slash \o UnclassifiedDir \o Slash \o assetUuid \o ExtName(fileName)

\* a cleanup that forgets to lower-case location and camera
CleanupPathNoLowerCase(assetUuid, fileName, metaData) ==
    LET storedFilename == assetUuid \o ExtName(fileName)
    IN  IF metaData # <<>>
        THEN LET m == metaData[1]
                 datePart == RemoveNonDigits(m.asset_date_label)
                 metaPath == Join(<< m.asset_type,
                                     m.asset_class,
                                     ReplaceWhitespaceRuns(m.asset_location_name),
                                     ReplaceWhitespaceRuns(m.asset_camera),
                                     IF datePart # <<>> THEN datePart ELSE Undated >>, Slash)
             IN  AssetsDir \o Slash \o metaPath \o Slash \o storedFilename
        ELSE AssetsDir \o Slash \o UnclassifiedDir \o Slash \o storedFilename

\* lines 161-181: the object name the catch block recomputes for the delete
CleanupPath(assetUuid, fileName, metaData) ==
    IF metaData # <<>>
    THEN LET m == metaData[1]
             datePart == RemoveNonDigits(m.asset_date_label)
             metaPath == Join(<< m.asset_type,
                                 m.asset_class,
                                 ToLowerCase(ReplaceWhitespaceRuns(m.asset_location_name)),
                                 ToLowerCase(ReplaceWhitespaceRuns(m.asset_camera)),
                                 IF datePart # <<>> THEN datePart ELSE Undated >>, Slash)
             storedFilename == assetUuid \o ExtName(fileName)
         IN  AssetsDir \o Slash \o metaPath \o Slash \o storedFilename
    ELSE LET storedFilename == assetUuid \o ExtName(fileName)
         IN  AssetsDir \o Slash \o UnclassifiedDir \o Slash \o storedFilename

\* MinioClient.getPresignedUrl: a URL naming the bucket and the object
PresignedUrl(objectName) == <<"http://minio/default/">> \o objectName

\* crypto.createHash('md5').update(fileContent).digest('hex')
Md5Hex(content) == <<"md5:" \o content>>

\* lines 105-115: the columns of the assets row
AssetData(assetUuid, file, storedPath, storedUrl) ==
    [ uuid              |-> assetUuid,
      imported_fullpath |-> file.name,
      imported_filename |-> BaseName(file.name),
      stored_fullpath   |-> storedPath,
      stored_url        |-> storedUrl,
      size              |-> file.size,
      stored_filename   |-> BaseName(storedPath),
      extension         |-> RemoveFirstDot(ExtName(file.name)),
      hash              |-> Md5Hex(file.content) ]

\* a row that stores location and camera as the path spells them
MetaRowNormalized(id, assetUuid, m) ==
    [ id                  |-> id,
      asset_type          |-> m.asset_type,
      asset_class         |-> m.asset_class,
      asset_location_name |-> ToLowerCase(ReplaceWhitespaceRuns(m.asset_location_name)),
      asset_camera        |-> ToLowerCase(ReplaceWhitespaceRuns(m.asset_camera)),
      asset_date_label    |-> m.asset_date_label,
      asset_id            |-> assetUuid ]

\* lines 117-128 and 242-253: the columns of an asset_meta_base row
MetaRow(id, assetUuid, m) ==
    [ id                  |-> id,
      asset_type          |-> m.asset_type,
      asset_class         |-> m.asset_class,
      asset_location_name |-> m.asset_location_name,
      asset_camera        |-> m.asset_camera,
      asset_date_label    |-> m.asset_date_label,
      asset_id            |-> assetUuid ]

\* findUnique / create with include: { meta_base: true }
WithMetaBase(row, metaRows) ==
    [ asset     |-> row,
      meta_base |-> IF \E mr \in metaRows : mr.asset_id = row.uuid
                    THEN <<CHOOSE mr \in metaRows : mr.asset_id = row.uuid>>
                    ELSE <<>> ]

-----------------------------------------------------------------------------
(* Errors and responses *)

\* class ServerError of the controller: an Error with a statusCode
ServerErrorOf(message, statusCode) ==
    [name |-> "ServerError", message |-> message, statusCode |-> <<statusCode>>]

\* an error thrown by a collaborator (minio, prisma, ioredis): no statusCode
CollaboratorError(message) ==
    [name |-> "Error", message |-> message, statusCode |-> <<>>]

PutObjectError    == CollaboratorError("minio putObject failed")
PresignError      == CollaboratorError("minio presignedGetObject failed")
AssetCreateError  == CollaboratorError("prisma asset.create failed")
PublishError      == CollaboratorError("redis publish failed")
RemoveObjectError == CollaboratorError("minio removeObject failed")
FindUniqueError   == CollaboratorError("prisma asset.findUnique failed")
UpsertError       == CollaboratorError("prisma assetMetaBase.upsert failed")
UniqueConstraintError ==
    CollaboratorError("prisma P2002 unique constraint asset_meta_base_asset_id_key")

\* a catch block that throws the cleanup error when the delete fails
IngestRethrowCleanupError(error, cleanupError) ==
    IF cleanupError # <<>> THEN cleanupError[1]
    ELSE IF error.name = "ServerError" THEN error
    ELSE ServerErrorOf("Failed to ingest asset", StatusServerError)

\* controller lines 185-193: the cleanup error is logged and dropped; a ServerError
\* is rethrown, anything else replaced by ServerError('Failed to ingest asset', 500)
IngestRethrow(error, cleanupError) ==
    IF error.name = "ServerError" THEN error
    ELSE ServerErrorOf("Failed to ingest asset", StatusServerError)

\* controller lines 271-275
UpsertRethrow(error) ==
    IF error.name = "ServerError" THEN error
    ELSE ServerErrorOf("Failed to upsert metadata", StatusServerError)

\* a catch block that answers every error with 500
ErrorResponseAlways500(error) ==
    [ status |-> StatusServerError,
      body   |-> [success |-> FALSE, error |-> error.message] ]

\* routes lines 93-104 and 165-176: the catch block of a handler
ErrorResponse(error) ==
    [ status |-> IF error.statusCode # <<>> THEN error.statusCode[1] ELSE StatusServerError,
      body   |-> [success |-> FALSE, error |-> error.message] ]

\* routes lines 89-92 and 161-164; asset is <<>> for null
SuccessResponse(asset) ==
    [ status |-> StatusOk,
      body   |-> [success |-> TRUE, data |-> asset] ]

\* routes lines 43-49
NoFileResponse ==
    [ status |-> StatusBadRequest,
      body   |-> [success |-> FALSE, error |-> "No file provided or invalid file"] ]

\* base.ts lines 117-138 with formatValidationError and makeErrorResult: the
\* answer to an ingest body the schema rejects; file is its one required key
IngestValidationResponse ==
    [ status |-> StatusBadRequest,
      body   |-> [http_status |-> StatusBadRequest,
                  success     |-> FALSE,
                  message     |-> <<"required: ", <<"file">> >>,
                  content     |-> [type    |-> "body",
                                   details |-> [missing_required_fields |-> <<"file">>]]] ]

-----------------------------------------------------------------------------
(* Request bodies *)

\* JavaScript truthiness of body[f]: the key was sent and its string is not empty
Truthy(body, f) == f \in DOMAIN body /\ body[f] # <<>>

\* routes lines 182-188: t.Object of five t.String(): every key was sent
BodyHasAllKeys(body) == \A f \in MetaFieldSet : f \in DOMAIN body

\* a check that only asks whether the keys were sent, as !== undefined would
HasAllMetadataFieldsKeysOnly(body) == \A f \in MetaFieldSet : f \in DOMAIN body

\* routes lines 52-56
HasAllMetadataFields(body) == \A f \in MetaFieldSet : Truthy(body, f)

\* routes lines 61-87: the metaData argument ingestAsset is called with
IngestMetaData(body) ==
    IF HasAllMetadataFields(body)
    THEN <<[f \in MetaFieldSet |-> body[f]]>>
    ELSE <<>>

\* a filter that takes for missing only the keys that were not sent
MissingFieldsAbsentOnly(body) == SelectSeq(MetaFields, LAMBDA f : f \notin DOMAIN body)

\* routes lines 142-144: the missing fields, in the order of the metadata object
MissingFields(body) == SelectSeq(MetaFields, LAMBDA f : ~Truthy(body, f))

\* routes lines 146-152
MissingFieldsResponse(body) ==
    [ status |-> StatusBadRequest,
      body   |-> [success |-> FALSE,
                  error   |-> <<"Missing required metadata fields: ", MissingFields(body)>>] ]

\* base.ts lines 117-138 with formatValidationError (lines 49-52, 96-104) and
\* makeErrorResult: the answer to a body the schema rejects (a required key not sent)
ValidationResponse(body) ==
    [ status |-> StatusBadRequest,
      body   |-> [http_status |-> StatusBadRequest,
                  success     |-> FALSE,
                  message     |-> <<"required: ", MissingFields(body)>>,
                  content     |-> [type    |-> "body",
                                   details |-> [missing_required_fields |-> MissingFields(body)]]] ]

-----------------------------------------------------------------------------
(* Requests *)

Photo == <<"p","h","o","t","o",".","j","p","g">>
PhotoUpper == <<"P","H","O","T","O",".","J","P","G">>
ClipNoExt == <<"c","l","i","p">>
TarGz == <<"a",".","t","a","r",".","g","z">>
DotFile == <<".","e","n","v">>

FileOf(name, content) ==
    [present |-> TRUE, isFile |-> TRUE, name |-> name, size |-> 1024, type |-> "image/jpeg",
     content |-> content]
\* a body.file that is not a File (a string, say)
NotAFile ==
    [present |-> TRUE, isFile |-> FALSE, name |-> <<>>, size |-> 0, type |-> "", content |-> ""]
\* a body without the file part
NoFilePart ==
    [present |-> FALSE, isFile |-> FALSE, name |-> <<>>, size |-> 0, type |-> "", content |-> ""]

Img == <<"i","m","g">>
Family == <<"f","a","m","i","l","y">>
LakeHouseName == <<"L","a","k","e"," ","H","o","u","s","e">>
CanonR5 == <<"C","a","n","o","n"," ","R","5">>
July1st == <<"2","0","2","4","-","0","7","-","0","1">>

MetaOf(type, class, location, camera, date) ==
    [ asset_type          |-> type,
      asset_class         |-> class,
      asset_location_name |-> location,
      asset_camera        |-> camera,
      asset_date_label    |-> date ]

\* the metadata of the scenario of the specification
LakeHouse == MetaOf(Img, Family, LakeHouseName, CanonR5, July1st)
\* another full metadata, different from LakeHouse in every field, its date without a digit
Studio == MetaOf(<<"v","i","d">>, <<"w","o","r","k">>, <<"S","t","u","d","i","o">>,
                 <<"g","o","p","r","o">>, <<"n","/","a">>)

\* body without the keys in absent
Without(body, absent) == [f \in (DOMAIN body) \ absent |-> body[f]]
\* body with the keys in empty sent as ''
Emptied(body, empty) == [f \in DOMAIN body |-> IF f \in empty THEN <<>> ELSE body[f]]

IngestRequest(file, body) == [op |-> "ingest", file |-> file, body |-> body, target |-> <<>>]
UpsertRequest(target, body) == [op |-> "upsert", file |-> NotAFile, body |-> body, target |-> target]

\* the requests of Spec
IngestRequests ==
    {IngestRequest(FileOf(Photo, "bytes"), b) :
        b \in {LakeHouse, Emptied(Without(LakeHouse, {"asset_camera"}), {"asset_date_label"})}}
    \cup {IngestRequest(NotAFile, LakeHouse), IngestRequest(NoFilePart, LakeHouse)}

UnknownUuid == <<"uuid-unknown">>
UpsertBodies ==
    {LakeHouse, Studio, Without(Studio, {"asset_camera"}), Emptied(Studio, {"asset_camera"}),
     Emptied(Without(LakeHouse, {"asset_type"}), {"asset_date_label", "asset_class"}),
     Emptied(LakeHouse, MetaFieldSet), Without(LakeHouse, MetaFieldSet)}

\* the requests of SpecIngest: every file name with every way of sending, leaving
\* empty or omitting each field, and with every short location name and date label
WideFiles ==
    {FileOf(n, "bytes") : n \in {Photo, PhotoUpper, ClipNoExt, TarGz, DotFile}}
        \cup {NotAFile, NoFilePart}
PresenceBodies ==
    {Emptied(Without(LakeHouse, absent), empty) :
        absent \in SUBSET MetaFieldSet, empty \in SUBSET MetaFieldSet}
LocationSamples == StringsUpTo({"A", " "}, MaxLen) \cup {LakeHouseName, <<"a","\t"," ","B">>}
DateSamples == StringsUpTo({"7", "-"}, MaxLen) \cup {July1st}
ShapeBodies ==
    {MetaOf(Img, Family, l, l, d) : l \in LocationSamples, d \in DateSamples}
    \cup {MetaOf(Img, Family, LakeHouseName, c, July1st) : c \in LocationSamples}
WideIngestRequests ==
    {IngestRequest(f, b) : f \in WideFiles, b \in PresenceBodies \cup ShapeBodies}

-----------------------------------------------------------------------------
(* Calls *)

NewCall(r) ==
    [ op           |-> r.op,
      pc           |-> "received",
      file         |-> r.file,
      body         |-> r.body,
      assetUuid    |-> r.target,
      metaData     |-> <<>>,
      storedPath   |-> <<>>,
      storedUrl    |-> <<>>,
      asset        |-> <<>>,
      existing     |-> <<>>,
      caught       |-> <<>>,
      cleanupError |-> <<>>,
      thrown       |-> <<>>,
      returned     |-> <<>>,
      response     |-> <<>>,
      trace        |-> <<>> ]

\* one call of a collaborator, as the call's trace records it
Op(op, name, ok) == [op |-> op, name |-> name, ok |-> ok]

CallIds == 1..Len(calls)

-----------------------------------------------------------------------------
(* Object store: MinioClient after initialize(), which the server awaits     *)
(* before it listens                                                         *)

\* client.putObject: the object of that name is created or replaced
PutObject(store, name, file) ==
    {o \in store : o.name # name}
        \cup {[name |-> name, data |-> file.content, size |-> file.size, contentType |-> file.type]}

\* client.removeObject: no object of that name is left; deleting none is no error
RemoveObject(store, name) == {o \in store : o.name # name}

ObjectExists(name) == \E o \in objects : o.name = name

\* An asset ingested before this run, without metadata: the database and the
\* bucket outlive the server, and this is the state its ingestion left.
EarlierFile == FileOf(<<"c","l","i","p",".","m","o","v">>, "earlier bytes")
EarlierPath == StoredPath(Uuid(0), EarlierFile.name, <<>>)
EarlierAsset == AssetData(Uuid(0), EarlierFile, EarlierPath, PresignedUrl(EarlierPath))

\* config.d.ts lines 78-81 and 104-131: the singleton, with the bucket it is
\* configured for; made counts the buckets created, callers are the calls of
\* its methods
MinioState(initialized, bucket) ==
    [initialized |-> initialized, bucket |-> bucket, made |-> 0, callers |-> <<>>]

\* index.ts lines 21-23: the server awaits storage.initialize() before it
\* listens, so that every request finds the client initialized and the bucket there
Init ==
    /\ calls = <<>>
    /\ objects = PutObject({}, EarlierPath, EarlierFile)
    /\ assets = {EarlierAsset}
    /\ metas = {}
    /\ published = <<>>
    /\ nextUuid = 1
    /\ nextMetaId = 1
    /\ minio = MinioState(TRUE, TRUE)

-----------------------------------------------------------------------------
(* POST /assets/ingest and AssetController.ingestAsset *)

\* routes lines 106-116 and base.ts onError: file: t.Any() is a required key of
\* the body schema, and a body without it is answered before the handler runs
IngestInvalidBody(requests, limit) ==
    /\ Len(calls) < limit
    /\ \E r \in requests :
        /\ r.op = "ingest"
        /\ ~r.file.present
        /\ calls' = Append(calls, [NewCall(r) EXCEPT !.pc = "done",
                                                     !.response = <<IngestValidationResponse>>])
        /\ UNCHANGED <<objects, assets, metas, published, nextUuid, nextMetaId, minio>>

\* a handler that passes on whatever it was sent as file
IngestNoFileLenient(requests, limit) ==
    /\ Len(calls) < limit
    /\ \E r \in requests :
        /\ r.op = "ingest"
        /\ ~r.file.isFile
        /\ calls' = Append(calls,
                [NewCall(r) EXCEPT !.pc = "upload",
                                   !.assetUuid = Uuid(nextUuid),
                                   !.storedPath = StoredPath(Uuid(nextUuid), r.file.name, <<>>)])
        /\ nextUuid' = nextUuid + 1
        /\ UNCHANGED <<objects, assets, metas, published, nextMetaId, minio>>

\* routes lines 43-49: no file, or not a File; the elysia version is not pinned
\* (package.json: "latest"), and should its any-schema let a body without the
\* key through, !file rejects it here
IngestNoFile(requests, limit) ==
    /\ Len(calls) < limit
    /\ \E r \in requests :
        /\ r.op = "ingest"
        /\ ~r.file.isFile
        /\ calls' = Append(calls, [NewCall(r) EXCEPT !.pc = "done",
                                                     !.response = <<NoFileResponse>>])
        /\ UNCHANGED <<objects, assets, metas, published, nextUuid, nextMetaId, minio>>

\* routes lines 51-87, controller lines 48-87: the metadata is kept or dropped,
\* the uuid drawn, the file read and the stored path derived (the read of the
\* received file takes its bytes from memory and involves no collaborator)
IngestBegin(requests, limit) ==
    /\ Len(calls) < limit
    /\ \E r \in requests :
        /\ r.op = "ingest"
        /\ r.file.isFile
        /\ LET metaData == IngestMetaData(r.body)
               assetUuid == Uuid(nextUuid)
           IN  calls' = Append(calls,
                    [NewCall(r) EXCEPT !.pc = "upload",
                                       !.assetUuid = assetUuid,
                                       !.metaData = metaData,
                                       !.storedPath = StoredPath(assetUuid, r.file.name, metaData)])
        /\ nextUuid' = nextUuid + 1
        /\ UNCHANGED <<objects, assets, metas, published, nextMetaId, minio>>

\* controller lines 89-96, MinioClient.uploadObject
IngestUploadOk(c) ==
    /\ calls[c].op = "ingest" /\ calls[c].pc = "upload"
    /\ objects' = PutObject(objects, calls[c].storedPath, calls[c].file)
    /\ calls' = [calls EXCEPT ![c].pc = "presign",
                              ![c].trace = Append(@, Op("putObject", calls[c].storedPath, TRUE))]
    /\ UNCHANGED <<assets, metas, published, nextUuid, nextMetaId, minio>>

\* an upload failure that is thrown without running the cleanup
IngestUploadFailNoCleanup(c) ==
    /\ calls[c].op = "ingest" /\ calls[c].pc = "upload"
    /\ LET thrown == IngestRethrow(PutObjectError, <<>>)
       IN  calls' = [calls EXCEPT ![c].pc = "done",
                                  ![c].caught = <<PutObjectError>>,
                                  ![c].thrown = <<thrown>>,
                                  ![c].response = <<ErrorResponse(thrown)>>,
                                  ![c].trace = Append(@, Op("putObject", calls[c].storedPath, FALSE))]
    /\ UNCHANGED <<objects, assets, metas, published, nextUuid, nextMetaId, minio>>

IngestUploadFail(c) ==
    /\ calls[c].op = "ingest" /\ calls[c].pc = "upload"
    /\ calls' = [calls EXCEPT ![c].pc = "cleanup",
                              ![c].caught = <<PutObjectError>>,
                              ![c].trace = Append(@, Op("putObject", calls[c].storedPath, FALSE))]
    /\ UNCHANGED <<objects, assets, metas, published, nextUuid, nextMetaId, minio>>

\* controller lines 98-99, MinioClient.getPresignedUrl
IngestPresignOk(c) ==
    /\ calls[c].op = "ingest" /\ calls[c].pc = "presign"
    /\ calls' = [calls EXCEPT ![c].pc = "create",
                              ![c].storedUrl = PresignedUrl(calls[c].storedPath),
                              ![c].trace = Append(@, Op("presignedGetObject", calls[c].storedPath, TRUE))]
    /\ UNCHANGED <<objects, assets, metas, published, nextUuid, nextMetaId, minio>>

IngestPresignFail(c) ==
    /\ calls[c].op = "ingest" /\ calls[c].pc = "presign"
    /\ calls' = [calls EXCEPT ![c].pc = "cleanup",
                              ![c].caught = <<PresignError>>,
                              ![c].trace = Append(@, Op("presignedGetObject", calls[c].storedPath, FALSE))]
    /\ UNCHANGED <<objects, assets, metas, published, nextUuid, nextMetaId, minio>>

\* controller lines 101-135: the row and, with metadata, its asset_meta_base row, in one create
IngestCreateOk(c) ==
    /\ calls[c].op = "ingest" /\ calls[c].pc = "create"
    /\ LET k == calls[c]
           row == AssetData(k.assetUuid, k.file, k.storedPath, k.storedUrl)
           metaRows == IF k.metaData # <<>>
                       THEN {MetaRow(MetaId(nextMetaId), k.assetUuid, k.metaData[1])}
                       ELSE {}
       IN  /\ assets' = assets \cup {row}
           /\ metas' = metas \cup metaRows
           /\ nextMetaId' = nextMetaId + Cardinality(metaRows)
           /\ calls' = [calls EXCEPT ![c].pc = "publish",
                                     ![c].asset = <<WithMetaBase(row, metas \cup metaRows)>>,
                                     ![c].trace = Append(@, Op("asset.create", k.assetUuid, TRUE))]
    /\ UNCHANGED <<objects, published, nextUuid, minio>>

IngestCreateFail(c) ==
    /\ calls[c].op = "ingest" /\ calls[c].pc = "create"
    /\ calls' = [calls EXCEPT ![c].pc = "cleanup",
                              ![c].caught = <<AssetCreateError>>,
                              ![c].trace = Append(@, Op("asset.create", calls[c].assetUuid, FALSE))]
    /\ UNCHANGED <<objects, assets, metas, published, nextUuid, nextMetaId, minio>>

\* a message that never carries the metadata
IngestedEventNoMeta(a) ==
    [ channel |-> "asset_ingested",
      message |-> [ asset |-> [ uuid      |-> a.asset.uuid,
                                filename  |-> a.asset.imported_filename,
                                url       |-> a.asset.stored_url,
                                extension |-> a.asset.extension,
                                size      |-> a.asset.size ],
                    meta  |-> <<>> ] ]

\* controller lines 139-148: the message of the asset_ingested event
IngestedEvent(a) ==
    [ channel |-> "asset_ingested",
      message |-> [ asset |-> [ uuid      |-> a.asset.uuid,
                                filename  |-> a.asset.imported_filename,
                                url       |-> a.asset.stored_url,
                                extension |-> a.asset.extension,
                                size      |-> a.asset.size ],
                    meta  |-> a.meta_base ] ]

\* controller lines 137-152, routes lines 89-92: published, returned, answered
IngestPublishOk(c) ==
    /\ calls[c].op = "ingest" /\ calls[c].pc = "publish"
    /\ published' = Append(published, IngestedEvent(calls[c].asset[1]))
    /\ calls' = [calls EXCEPT ![c].pc = "done",
                              ![c].returned = calls[c].asset,
                              ![c].response = <<SuccessResponse(calls[c].asset)>>,
                              ![c].trace = Append(@, Op("publish", <<"asset_ingested">>, TRUE))]
    /\ UNCHANGED <<objects, assets, metas, nextUuid, nextMetaId, minio>>

\* RedisClient.publish rethrows (config.d.ts lines 343-346) inside the try block
IngestPublishFail(c) ==
    /\ calls[c].op = "ingest" /\ calls[c].pc = "publish"
    /\ calls' = [calls EXCEPT ![c].pc = "cleanup",
                              ![c].caught = <<PublishError>>,
                              ![c].trace = Append(@, Op("publish", <<"asset_ingested">>, FALSE))]
    /\ UNCHANGED <<objects, assets, metas, published, nextUuid, nextMetaId, minio>>

\* the catch block ended: the error is thrown and the route answers with it
IngestThrow(c, cleanupPath, cleanupError) ==
    LET k == calls[c]
        thrown == IngestRethrow(k.caught[1], cleanupError)
    IN  calls' = [calls EXCEPT ![c].pc = "done",
                               ![c].cleanupError = cleanupError,
                               ![c].thrown = <<thrown>>,
                               ![c].response = <<ErrorResponse(thrown)>>,
                               ![c].trace = Append(@, Op("removeObject", cleanupPath, cleanupError = <<>>))]

\* controller lines 153-194: the delete at the recomputed path succeeds
IngestCleanupOk(c) ==
    /\ calls[c].op = "ingest" /\ calls[c].pc = "cleanup"
    /\ LET cleanupPath == CleanupPath(calls[c].assetUuid, calls[c].file.name, calls[c].metaData)
       IN  /\ objects' = RemoveObject(objects, cleanupPath)
           /\ IngestThrow(c, cleanupPath, <<>>)
    /\ UNCHANGED <<assets, metas, published, nextUuid, nextMetaId, minio>>

\* a catch block that tries the delete a second time when the first one failed
IngestCleanupFailRetried(c) ==
    /\ calls[c].op = "ingest" /\ calls[c].pc = "cleanup"
    /\ LET cleanupPath == CleanupPath(calls[c].assetUuid, calls[c].file.name, calls[c].metaData)
       IN  IF \E i \in 1..Len(calls[c].trace) : calls[c].trace[i].op = "removeObject"
           THEN IngestThrow(c, cleanupPath, <<RemoveObjectError>>)
           ELSE calls' = [calls EXCEPT ![c].trace = Append(@, Op("removeObject", cleanupPath, FALSE))]
    /\ UNCHANGED <<objects, assets, metas, published, nextUuid, nextMetaId, minio>>

\* controller lines 153-194: the delete fails, which is logged
IngestCleanupFail(c) ==
    /\ calls[c].op = "ingest" /\ calls[c].pc = "cleanup"
    /\ LET cleanupPath == CleanupPath(calls[c].assetUuid, calls[c].file.name, calls[c].metaData)
       IN  IngestThrow(c, cleanupPath, <<RemoveObjectError>>)
    /\ UNCHANGED <<objects, assets, metas, published, nextUuid, nextMetaId, minio>>

-----------------------------------------------------------------------------
(* POST /assets/:uuid/metadata and AssetController.upsertMetadata *)

\* the answer of a call that ended with an error thrown by upsertMetadata
UpsertThrow(c, error, op) ==
    LET thrown == UpsertRethrow(error)
    IN  calls' = [calls EXCEPT ![c].pc = "done",
                               ![c].caught = <<error>>,
                               ![c].thrown = <<thrown>>,
                               ![c].response = <<ErrorResponse(thrown)>>,
                               ![c].trace = Append(@, Op(op, calls[c].assetUuid, FALSE))]

\* routes lines 182-188 and base.ts onError: a key of the body schema was not sent
UpsertInvalidBody(requests, limit) ==
    /\ Len(calls) < limit
    /\ \E r \in requests :
        /\ r.op = "upsert"
        /\ ~BodyHasAllKeys(r.body)
        /\ calls' = Append(calls, [NewCall(r) EXCEPT !.pc = "done",
                                                     !.response = <<ValidationResponse(r.body)>>])
        /\ UNCHANGED <<objects, assets, metas, published, nextUuid, nextMetaId, minio>>

\* routes lines 141-152: a field is empty
UpsertMissingFields(requests, limit) ==
    /\ Len(calls) < limit
    /\ \E r \in requests :
        /\ r.op = "upsert"
        /\ BodyHasAllKeys(r.body)
        /\ MissingFields(r.body) # <<>>
        /\ calls' = Append(calls, [NewCall(r) EXCEPT !.pc = "done",
                                                     !.response = <<MissingFieldsResponse(r.body)>>])
        /\ UNCHANGED <<objects, assets, metas, published, nextUuid, nextMetaId, minio>>

\* routes lines 154-159: upsertMetadata is called
UpsertBegin(requests, limit) ==
    /\ Len(calls) < limit
    /\ \E r \in requests :
        /\ r.op = "upsert"
        /\ BodyHasAllKeys(r.body)
        /\ MissingFields(r.body) = <<>>
        /\ calls' = Append(calls, [NewCall(r) EXCEPT !.pc = "find",
                                                     !.metaData = <<[f \in MetaFieldSet |-> r.body[f]]>>])
        /\ UNCHANGED <<objects, assets, metas, published, nextUuid, nextMetaId, minio>>

\* a lookup that takes any row for the asset
AssetRowAny(uuid) == assets

\* controller lines 219-222: where: { uuid: assetUuid }
AssetRow(uuid) == {a \in assets : a.uuid = uuid}

\* controller lines 218-228: the asset exists
UpsertFindFound(c) ==
    /\ calls[c].op = "upsert" /\ calls[c].pc = "find"
    /\ AssetRow(calls[c].assetUuid) # {}
    /\ calls' = [calls EXCEPT ![c].pc = "upsertSelect",
                              ![c].trace = Append(@, Op("asset.findUnique", calls[c].assetUuid, TRUE))]
    /\ UNCHANGED <<objects, assets, metas, published, nextUuid, nextMetaId, minio>>

\* controller lines 224-227 and 265-273, routes lines 165-176: no such asset, 404
UpsertFindMissing(c) ==
    /\ calls[c].op = "upsert" /\ calls[c].pc = "find"
    /\ AssetRow(calls[c].assetUuid) = {}
    /\ LET thrown == UpsertRethrow(ServerErrorOf("Asset not found", StatusNotFound))
       IN  calls' = [calls EXCEPT ![c].pc = "done",
                                  ![c].caught = <<ServerErrorOf("Asset not found", StatusNotFound)>>,
                                  ![c].thrown = <<thrown>>,
                                  ![c].response = <<ErrorResponse(thrown)>>,
                                  ![c].trace = Append(@, Op("asset.findUnique", calls[c].assetUuid, TRUE))]
    /\ UNCHANGED <<objects, assets, metas, published, nextUuid, nextMetaId, minio>>

\* controller lines 219-222: the query fails
UpsertFindFail(c) ==
    /\ calls[c].op = "upsert" /\ calls[c].pc = "find"
    /\ UpsertThrow(c, FindUniqueError, "asset.findUnique")
    /\ UNCHANGED <<objects, assets, metas, published, nextUuid, nextMetaId, minio>>

\* controller lines 231-254: prisma's upsert with a nested connect is a read
\* followed by a create or an update; this is the read
UpsertSelect(c) ==
    /\ calls[c].op = "upsert" /\ calls[c].pc = "upsertSelect"
    /\ calls' = [calls EXCEPT ![c].pc = "upsertWrite",
                              ![c].existing = IF \E mr \in metas : mr.asset_id = calls[c].assetUuid
                                              THEN <<(CHOOSE mr \in metas : mr.asset_id = calls[c].assetUuid).id>>
                                              ELSE <<>>]
    /\ UNCHANGED <<objects, assets, metas, published, nextUuid, nextMetaId, minio>>

\* controller lines 231-254: the upsert fails before it writes
UpsertFail(c) ==
    /\ calls[c].op = "upsert" /\ calls[c].pc = "upsertSelect"
    /\ UpsertThrow(c, UpsertError, "assetMetaBase.upsert")
    /\ UNCHANGED <<objects, assets, metas, published, nextUuid, nextMetaId, minio>>

\* a create that also moves the asset to the path of its new metadata
UpsertCreateMovingAsset(c) ==
    /\ calls[c].op = "upsert" /\ calls[c].pc = "upsertWrite"
    /\ calls[c].existing = <<>>
    /\ ~\E mr \in metas : mr.asset_id = calls[c].assetUuid
    /\ metas' = metas \cup {MetaRow(MetaId(nextMetaId), calls[c].assetUuid, calls[c].metaData[1])}
    /\ nextMetaId' = nextMetaId + 1
    /\ assets' = {IF a.uuid = calls[c].assetUuid
                  THEN [a EXCEPT !.stored_fullpath =
                            StoredPath(a.uuid, a.imported_fullpath, calls[c].metaData)]
                  ELSE a : a \in assets}
    /\ calls' = [calls EXCEPT ![c].pc = "reread",
                              ![c].trace = Append(@, Op("assetMetaBase.upsert", calls[c].assetUuid, TRUE))]
    /\ UNCHANGED <<objects, published, nextUuid, minio>>

\* an insert into a table that has no unique index on asset_id
UpsertCreateNoIndex(c) ==
    /\ calls[c].op = "upsert" /\ calls[c].pc = "upsertWrite"
    /\ calls[c].existing = <<>>
    /\ metas' = metas \cup {MetaRow(MetaId(nextMetaId), calls[c].assetUuid, calls[c].metaData[1])}
    /\ nextMetaId' = nextMetaId + 1
    /\ calls' = [calls EXCEPT ![c].pc = "reread",
                              ![c].trace = Append(@, Op("assetMetaBase.upsert", calls[c].assetUuid, TRUE))]
    /\ UNCHANGED <<objects, assets, published, nextUuid, minio>>

\* controller lines 242-253: no row was read, one is created and connected
UpsertCreate(c) ==
    /\ calls[c].op = "upsert" /\ calls[c].pc = "upsertWrite"
    /\ calls[c].existing = <<>>
    /\ ~\E mr \in metas : mr.asset_id = calls[c].assetUuid
    /\ metas' = metas \cup {MetaRow(MetaId(nextMetaId), calls[c].assetUuid, calls[c].metaData[1])}
    /\ nextMetaId' = nextMetaId + 1
    /\ calls' = [calls EXCEPT ![c].pc = "reread",
                              ![c].trace = Append(@, Op("assetMetaBase.upsert", calls[c].assetUuid, TRUE))]
    /\ UNCHANGED <<objects, assets, published, nextUuid, minio>>

\* migration.sql lines 30-31: a row for the asset was created after the read;
\* the unique index rejects the second one
UpsertCreateConflict(c) ==
    /\ calls[c].op = "upsert" /\ calls[c].pc = "upsertWrite"
    /\ calls[c].existing = <<>>
    /\ \E mr \in metas : mr.asset_id = calls[c].assetUuid
    /\ UpsertThrow(c, UniqueConstraintError, "assetMetaBase.upsert")
    /\ UNCHANGED <<objects, assets, metas, published, nextUuid, nextMetaId, minio>>

\* an update that leaves the camera of the row as it was
UpsertUpdateKeepsCamera(c) ==
    /\ calls[c].op = "upsert" /\ calls[c].pc = "upsertWrite"
    /\ calls[c].existing # <<>>
    /\ metas' = {IF mr.asset_id = calls[c].assetUuid
                 THEN [MetaRow(mr.id, mr.asset_id, calls[c].metaData[1])
                          EXCEPT !.asset_camera = mr.asset_camera]
                 ELSE mr : mr \in metas}
    /\ calls' = [calls EXCEPT ![c].pc = "reread",
                              ![c].trace = Append(@, Op("assetMetaBase.upsert", calls[c].assetUuid, TRUE))]
    /\ UNCHANGED <<objects, assets, published, nextUuid, nextMetaId, minio>>

\* an update that replaces the row by a new one, under a new id
UpsertUpdateNewId(c) ==
    /\ calls[c].op = "upsert" /\ calls[c].pc = "upsertWrite"
    /\ calls[c].existing # <<>>
    /\ metas' = {mr \in metas : mr.asset_id # calls[c].assetUuid}
                    \cup {MetaRow(MetaId(nextMetaId), calls[c].assetUuid, calls[c].metaData[1])}
    /\ nextMetaId' = nextMetaId + 1
    /\ calls' = [calls EXCEPT ![c].pc = "reread",
                              ![c].trace = Append(@, Op("assetMetaBase.upsert", calls[c].assetUuid, TRUE))]
    /\ UNCHANGED <<objects, assets, published, nextUuid, minio>>

\* controller lines 235-241: the row read has its five fields overwritten
UpsertUpdate(c) ==
    /\ calls[c].op = "upsert" /\ calls[c].pc = "upsertWrite"
    /\ calls[c].existing # <<>>
    /\ metas' = {IF mr.asset_id = calls[c].assetUuid
                 THEN MetaRow(mr.id, mr.asset_id, calls[c].metaData[1])
                 ELSE mr : mr \in metas}
    /\ calls' = [calls EXCEPT ![c].pc = "reread",
                              ![c].trace = Append(@, Op("assetMetaBase.upsert", calls[c].assetUuid, TRUE))]
    /\ UNCHANGED <<objects, assets, published, nextUuid, nextMetaId, minio>>

\* controller lines 258-264, routes lines 161-164: the asset is read again and returned
UpsertRereadOk(c) ==
    /\ calls[c].op = "upsert" /\ calls[c].pc = "reread"
    /\ LET rows == AssetRow(calls[c].assetUuid)
           updatedAsset == IF rows = {} THEN <<>>
                           ELSE <<WithMetaBase(CHOOSE a \in rows : TRUE, metas)>>
       IN  calls' = [calls EXCEPT ![c].pc = "done",
                                  ![c].returned = updatedAsset,
                                  ![c].response = <<SuccessResponse(updatedAsset)>>,
                                  ![c].trace = Append(@, Op("asset.findUnique", calls[c].assetUuid, TRUE))]
    /\ UNCHANGED <<objects, assets, metas, published, nextUuid, nextMetaId, minio>>

UpsertRereadFail(c) ==
    /\ calls[c].op = "upsert" /\ calls[c].pc = "reread"
    /\ UpsertThrow(c, FindUniqueError, "asset.findUnique")
    /\ UNCHANGED <<objects, assets, metas, published, nextUuid, nextMetaId, minio>>

-----------------------------------------------------------------------------
(* The endpoints kept for future implementation *)

NotYetImplemented == "Not yet implemented"

\* routes lines 199-203, 231-235, 264-267, 296-299, 331-334: the message is
\* `${endpoint} - Not yet implemented`; data is <<>> when the object has no data key
StubResponse(endpoint, data) ==
    [ status |-> StatusOk,
      body   |-> IF data = <<>>
                 THEN [success |-> TRUE, message |-> <<endpoint, " - ", NotYetImplemented>>]
                 ELSE [success |-> TRUE, message |-> <<endpoint, " - ", NotYetImplemented>>,
                       data |-> data[1]] ]

StubRequest(op, target) ==
    [op |-> op, file |-> NoFilePart, body |-> Without(LakeHouse, MetaFieldSet), target |-> target]

\* the call of a stub: answered at once
StubCall(op, target, response) ==
    Append(calls, [NewCall(StubRequest(op, target)) EXCEPT !.pc = "done",
                                                         !.response = <<response>>])

\* routes lines 193-222: GET /:uuid
GetAsset(targets, limit) ==
    /\ Len(calls) < limit
    /\ \E uuid \in targets :
        calls' = StubCall("get", uuid,
                    StubResponse("Asset retrieval endpoint", <<[uuid |-> uuid]>>))
    /\ UNCHANGED <<objects, assets, metas, published, nextUuid, nextMetaId, minio>>

\* routes lines 225-251: GET /
ListAssets(limit) ==
    /\ Len(calls) < limit
    /\ calls' = StubCall("list", <<>>, StubResponse("Asset listing endpoint", << <<>> >>))
    /\ UNCHANGED <<objects, assets, metas, published, nextUuid, nextMetaId, minio>>

\* a DELETE /:uuid that deletes the asset's rows and object
DeleteAssetImplemented(targets, limit) ==
    /\ Len(calls) < limit
    /\ \E uuid \in targets :
        /\ calls' = StubCall("delete", uuid, StubResponse("Asset deletion endpoint", <<>>))
        /\ assets' = {a \in assets : a.uuid # uuid}
        /\ metas' = {mr \in metas : mr.asset_id # uuid}
        /\ objects' = {o \in objects : \A a \in assets : a.uuid = uuid => o.name # a.stored_fullpath}
    /\ UNCHANGED <<published, nextUuid, nextMetaId, minio>>

\* routes lines 254-282: DELETE /:uuid
DeleteAsset(targets, limit) ==
    /\ Len(calls) < limit
    /\ \E uuid \in targets :
        calls' = StubCall("delete", uuid, StubResponse("Asset deletion endpoint", <<>>))
    /\ UNCHANGED <<objects, assets, metas, published, nextUuid, nextMetaId, minio>>

\* routes lines 285-317: POST /:uuid/access
AddUserAccess(targets, limit) ==
    /\ Len(calls) < limit
    /\ \E uuid \in targets :
        calls' = StubCall("addAccess", uuid, StubResponse("Asset access grant endpoint", <<>>))
    /\ UNCHANGED <<objects, assets, metas, published, nextUuid, nextMetaId, minio>>

\* routes lines 320-349: DELETE /:uuid/access/:user_uuid
RemoveUserAccess(targets, limit) ==
    /\ Len(calls) < limit
    /\ \E uuid \in targets :
        calls' = StubCall("removeAccess", uuid,
                    StubResponse("Asset access revocation endpoint", <<>>))
    /\ UNCHANGED <<objects, assets, metas, published, nextUuid, nextMetaId, minio>>

StubOps == {"get", "list", "delete", "addAccess", "removeAccess"}

-----------------------------------------------------------------------------
(* Specifications *)

\* the uuids a client can name: those of earlier and of current ingestions, and one never handed out
KnownTargets == {Uuid(n) : n \in 0..(nextUuid - 1)} \cup {UnknownUuid}
UpsertRequests == {UpsertRequest(t, b) : t \in KnownTargets, b \in UpsertBodies}

\* up to MaxCalls requests of either kind, handled concurrently
Next ==
    \/ IngestInvalidBody(IngestRequests, MaxCalls)
    \/ IngestNoFile(IngestRequests, MaxCalls)
    \/ IngestBegin(IngestRequests, MaxCalls)
    \/ UpsertInvalidBody(UpsertRequests, MaxCalls)
    \/ UpsertMissingFields(UpsertRequests, MaxCalls)
    \/ UpsertBegin(UpsertRequests, MaxCalls)
    \/ GetAsset(KnownTargets, MaxCalls)
    \/ ListAssets(MaxCalls)
    \/ DeleteAsset(KnownTargets, MaxCalls)
    \/ AddUserAccess(KnownTargets, MaxCalls)
    \/ RemoveUserAccess(KnownTargets, MaxCalls)
    \/ \E c \in CallIds : IngestUploadOk(c)
    \/ \E c \in CallIds : IngestUploadFail(c)
    \/ \E c \in CallIds : IngestPresignOk(c)
    \/ \E c \in CallIds : IngestPresignFail(c)
    \/ \E c \in CallIds : IngestCreateOk(c)
    \/ \E c \in CallIds : IngestCreateFail(c)
    \/ \E c \in CallIds : IngestPublishOk(c)
    \/ \E c \in CallIds : IngestPublishFail(c)
    \/ \E c \in CallIds : IngestCleanupOk(c)
    \/ \E c \in CallIds : IngestCleanupFail(c)
    \/ \E c \in CallIds : UpsertFindFound(c)
    \/ \E c \in CallIds : UpsertFindMissing(c)
    \/ \E c \in CallIds : UpsertFindFail(c)
    \/ \E c \in CallIds : UpsertSelect(c)
    \/ \E c \in CallIds : UpsertFail(c)
    \/ \E c \in CallIds : UpsertCreate(c)
    \/ \E c \in CallIds : UpsertCreateConflict(c)
    \/ \E c \in CallIds : UpsertUpdate(c)
    \/ \E c \in CallIds : UpsertRereadOk(c)
    \/ \E c \in CallIds : UpsertRereadFail(c)

Spec == Init /\ [][Next]_vars

\* one ingest request, drawn from the wide set of file names and metadata
NextIngest ==
    \/ IngestInvalidBody(WideIngestRequests, 1)
    \/ IngestNoFile(WideIngestRequests, 1)
    \/ IngestBegin(WideIngestRequests, 1)
    \/ \E c \in CallIds : IngestUploadOk(c)
    \/ \E c \in CallIds : IngestUploadFail(c)
    \/ \E c \in CallIds : IngestPresignOk(c)
    \/ \E c \in CallIds : IngestPresignFail(c)
    \/ \E c \in CallIds : IngestCreateOk(c)
    \/ \E c \in CallIds : IngestCreateFail(c)
    \/ \E c \in CallIds : IngestPublishOk(c)
    \/ \E c \in CallIds : IngestPublishFail(c)
    \/ \E c \in CallIds : IngestCleanupOk(c)
    \/ \E c \in CallIds : IngestCleanupFail(c)

SpecIngest == Init /\ [][NextIngest]_vars

\* the step a running ingestAsset call is waiting for: each awaited call of a
\* collaborator is answered, with a result or with an error
IngestStep(c) ==
    /\ c \in CallIds
    /\ \/ IngestUploadOk(c) \/ IngestUploadFail(c)
       \/ IngestPresignOk(c) \/ IngestPresignFail(c)
       \/ IngestCreateOk(c) \/ IngestCreateFail(c)
       \/ IngestPublishOk(c) \/ IngestPublishFail(c)
       \/ IngestCleanupOk(c) \/ IngestCleanupFail(c)

\* IngestStep(c) can be taken: the call is waiting for an answer
Running(c) == c \in CallIds /\ calls[c].op = "ingest" /\ calls[c].pc # "done"

\* Spec with every awaited call of an ingestion answered in the end: weak
\* fairness of IngestStep(c), its ENABLED written as the state predicate Running(c)
SpecFair ==
    Spec /\ \A c \in 1..MaxCalls : ([]<>(~Running(c)) \/ []<><<IngestStep(c)>>_vars)

\* no request is being handled
Idle == \A c \in CallIds : calls[c].pc = "done"

\* up to MaxCalls requests of either kind, one after the other: a request is
\* received when the one before it has been answered. No row for the asset can
\* then appear between the read and the write of an upsert, so the rejection by
\* the unique index has no step here.
NextSerial ==
    \/ Idle /\ IngestInvalidBody(IngestRequests, MaxCalls)
    \/ Idle /\ IngestNoFile(IngestRequests, MaxCalls)
    \/ Idle /\ IngestBegin(IngestRequests, MaxCalls)
    \/ Idle /\ UpsertInvalidBody(UpsertRequests, MaxCalls)
    \/ Idle /\ UpsertMissingFields(UpsertRequests, MaxCalls)
    \/ Idle /\ UpsertBegin(UpsertRequests, MaxCalls)
    \/ \E c \in CallIds : IngestUploadOk(c)
    \/ \E c \in CallIds : IngestUploadFail(c)
    \/ \E c \in CallIds : IngestPresignOk(c)
    \/ \E c \in CallIds : IngestPresignFail(c)
    \/ \E c \in CallIds : IngestCreateOk(c)
    \/ \E c \in CallIds : IngestCreateFail(c)
    \/ \E c \in CallIds : IngestPublishOk(c)
    \/ \E c \in CallIds : IngestPublishFail(c)
    \/ \E c \in CallIds : IngestCleanupOk(c)
    \/ \E c \in CallIds : IngestCleanupFail(c)
    \/ \E c \in CallIds : UpsertFindFound(c)
    \/ \E c \in CallIds : UpsertFindMissing(c)
    \/ \E c \in CallIds : UpsertFindFail(c)
    \/ \E c \in CallIds : UpsertSelect(c)
    \/ \E c \in CallIds : UpsertFail(c)
    \/ \E c \in CallIds : UpsertCreate(c)
    \/ \E c \in CallIds : UpsertUpdate(c)
    \/ \E c \in CallIds : UpsertRereadOk(c)
    \/ \E c \in CallIds : UpsertRereadFail(c)

SpecSerial == Init /\ [][NextSerial]_vars

-----------------------------------------------------------------------------
(* MinioClient used before it was initialized: its methods called on the    *)
(* singleton by callers that run concurrently, each up to its next await     *)

MinioMethods == {"initialize", "uploadObject", "getPresignedUrl", "deleteObject"}

BucketExistsError == CollaboratorError("minio bucketExists failed")
MakeBucketError == CollaboratorError("minio makeBucket failed")
\* the answer of the server to makeBucket for a bucket that is there
BucketAlreadyOwnedError == CollaboratorError("BucketAlreadyOwnedByYou")

Callers == 1..Len(minio.callers)

\* where a caller goes on once initialize() has returned: initialize itself
\* is done, the other methods call the client for their object
AfterInitialize(method) == IF method = "initialize" THEN "done" ELSE "op"

\* config.d.ts lines 105-107, 147-149, 190-192, 210-212: a method is called; it
\* reads initialized and, when false, runs initialize up to its await of bucketExists
MinioEnter(limit) ==
    /\ Len(minio.callers) < limit
    /\ \E method \in MinioMethods :
        minio' = [minio EXCEPT !.callers = Append(@,
                    [method |-> method,
                     pc     |-> IF minio.initialized THEN AfterInitialize(method)
                                ELSE "bucketExists",
                     error  |-> <<>>])]
    /\ UNCHANGED <<calls, objects, assets, metas, published, nextUuid, nextMetaId>>

\* config.d.ts lines 119-126: bucketExists is answered; without a bucket
\* makeBucket is called, with one initialized is set
MinioBucketExists(k) ==
    /\ minio.callers[k].pc = "bucketExists"
    /\ minio' = IF minio.bucket
                THEN [minio EXCEPT !.initialized = TRUE,
                                   !.callers[k].pc = AfterInitialize(minio.callers[k].method)]
                ELSE [minio EXCEPT !.callers[k].pc = "makeBucket"]
    /\ UNCHANGED <<calls, objects, assets, metas, published, nextUuid, nextMetaId>>

\* config.d.ts lines 127-130: the error of bucketExists is thrown to the caller
MinioBucketExistsFail(k) ==
    /\ minio.callers[k].pc = "bucketExists"
    /\ minio' = [minio EXCEPT !.callers[k].pc = "done",
                              !.callers[k].error = <<BucketExistsError>>]
    /\ UNCHANGED <<calls, objects, assets, metas, published, nextUuid, nextMetaId>>

\* config.d.ts lines 121-126: the bucket is created and initialized is set
MinioMakeBucket(k) ==
    /\ minio.callers[k].pc = "makeBucket"
    /\ ~minio.bucket
    /\ minio' = [minio EXCEPT !.bucket = TRUE,
                              !.made = @ + 1,
                              !.initialized = TRUE,
                              !.callers[k].pc = AfterInitialize(minio.callers[k].method)]
    /\ UNCHANGED <<calls, objects, assets, metas, published, nextUuid, nextMetaId>>

\* config.d.ts lines 121-122 and 127-130: the bucket was created by another
\* caller after this one's bucketExists; makeBucket is refused and the error thrown
MinioMakeBucketConflict(k) ==
    /\ minio.callers[k].pc = "makeBucket"
    /\ minio.bucket
    /\ minio' = [minio EXCEPT !.callers[k].pc = "done",
                              !.callers[k].error = <<BucketAlreadyOwnedError>>]
    /\ UNCHANGED <<calls, objects, assets, metas, published, nextUuid, nextMetaId>>

\* config.d.ts lines 127-130: makeBucket fails for a reason of its own
MinioMakeBucketFail(k) ==
    /\ minio.callers[k].pc = "makeBucket"
    /\ minio' = [minio EXCEPT !.callers[k].pc = "done",
                              !.callers[k].error = <<MakeBucketError>>]
    /\ UNCHANGED <<calls, objects, assets, metas, published, nextUuid, nextMetaId>>

\* config.d.ts lines 151-160, 194-196, 214-215: the method's call of the client is answered
MinioOp(k) ==
    /\ minio.callers[k].pc = "op"
    /\ minio' = [minio EXCEPT !.callers[k].pc = "done"]
    /\ objects' = CASE minio.callers[k].method = "uploadObject"
                        -> PutObject(objects, EarlierPath, EarlierFile)
                     [] minio.callers[k].method = "deleteObject"
                        -> RemoveObject(objects, EarlierPath)
                     [] OTHER -> objects
    /\ UNCHANGED <<calls, assets, metas, published, nextUuid, nextMetaId>>

\* config.d.ts lines 161-164, 197-200, 216-219: it fails, and the error is thrown
MinioOpFail(k) ==
    /\ minio.callers[k].pc = "op"
    /\ minio' = [minio EXCEPT !.callers[k].pc = "done",
                              !.callers[k].error =
                                  CASE minio.callers[k].method = "uploadObject" -> <<PutObjectError>>
                                    [] minio.callers[k].method = "deleteObject" -> <<RemoveObjectError>>
                                    [] OTHER -> <<PresignError>>]
    /\ UNCHANGED <<calls, objects, assets, metas, published, nextUuid, nextMetaId>>

\* a client that was constructed and not initialized, its bucket there or not
InitMinio ==
    /\ calls = <<>>
    /\ metas = {}
    /\ published = <<>>
    /\ nextUuid = 1
    /\ nextMetaId = 1
    /\ \E bucket \in BOOLEAN :
        /\ minio = MinioState(FALSE, bucket)
        /\ objects = IF bucket THEN PutObject({}, EarlierPath, EarlierFile) ELSE {}
        /\ assets = IF bucket THEN {EarlierAsset} ELSE {}

NextMinio ==
    \/ MinioEnter(MaxCallers)
    \/ \E k \in Callers : MinioBucketExists(k)
    \/ \E k \in Callers : MinioBucketExistsFail(k)
    \/ \E k \in Callers : MinioMakeBucket(k)
    \/ \E k \in Callers : MinioMakeBucketConflict(k)
    \/ \E k \in Callers : MinioMakeBucketFail(k)
    \/ \E k \in Callers : MinioOp(k)
    \/ \E k \in Callers : MinioOpFail(k)

SpecMinio == InitMinio /\ [][NextMinio]_vars

-----------------------------------------------------------------------------
(* Properties *)

IngestCalls == {c \in CallIds : calls[c].op = "ingest"}
UpsertCalls == {c \in CallIds : calls[c].op = "upsert"}
Done(c) == calls[c].pc = "done"

\* the collaborator calls of kind op that call c has made
OpsOf(c, op) == {i \in 1..Len(calls[c].trace) : calls[c].trace[i].op = op}
Did(c, op, ok) == \E i \in OpsOf(c, op) : calls[c].trace[i].ok = ok

\* C1: an ingestion that has returned after its upload succeeded and its database
\* create failed has issued a delete for the object it uploaded, at the path
\* recomputed from uuid, file name and metadata; if that delete succeeded, the
\* bucket holds no object of that name.
C1_CompensatingDelete ==
    \A c \in IngestCalls :
        (Done(c) /\ Did(c, "putObject", TRUE) /\ Did(c, "asset.create", FALSE))
        => \E d \in OpsOf(c, "removeObject") :
              /\ \A u \in OpsOf(c, "putObject") : calls[c].trace[d].name = calls[c].trace[u].name
              /\ calls[c].trace[d].ok => ~ObjectExists(calls[c].trace[d].name)

C1_Witness ==
    \E c \in IngestCalls :
        /\ Done(c) /\ calls[c].metaData # <<>>
        /\ Did(c, "putObject", TRUE) /\ Did(c, "asset.create", FALSE)
        /\ Did(c, "removeObject", TRUE)

\* C2: an ingestion whose upload, URL retrieval and database create succeeded and
\* whose publish threw still returns the persisted asset, and its object and its
\* row both remain.
C2_PublishFailureDoesNotFail ==
    \A c \in IngestCalls :
        (Done(c) /\ Did(c, "putObject", TRUE) /\ Did(c, "presignedGetObject", TRUE)
                 /\ Did(c, "asset.create", TRUE) /\ Did(c, "publish", FALSE))
        => /\ calls[c].returned # <<>>
           /\ calls[c].returned = calls[c].asset
           /\ calls[c].thrown = <<>>
           /\ ObjectExists(calls[c].storedPath)
           /\ \E a \in assets : a.uuid = calls[c].assetUuid

\* C3 as claimed: when the database create fails and the compensating delete
\* fails too, the error thrown is the error of the database write itself.
C3_DatabaseErrorItselfThrown ==
    \A c \in IngestCalls :
        (Done(c) /\ Did(c, "asset.create", FALSE) /\ calls[c].cleanupError # <<>>)
        => calls[c].thrown = <<AssetCreateError>>

\* C3: when the database create fails, the error thrown is ServerError('Failed to
\* ingest asset', 500), the same whether the compensating delete failed or not, and
\* never the cleanup error; the route answers with that error's status and message.
C3_CleanupErrorNeverThrown ==
    \A c \in IngestCalls :
        (Done(c) /\ Did(c, "asset.create", FALSE))
        => /\ calls[c].thrown = <<ServerErrorOf("Failed to ingest asset", StatusServerError)>>
           /\ calls[c].thrown # calls[c].cleanupError
           /\ calls[c].response[1].status = StatusServerError
           /\ calls[c].response[1].body.error = "Failed to ingest asset"

C3_Witness ==
    \E c \in IngestCalls :
        /\ Done(c) /\ Did(c, "asset.create", FALSE)
        /\ calls[c].cleanupError = <<RemoveObjectError>>
        /\ Did(c, "removeObject", FALSE)

\* C4 as claimed: a delete is issued only after a successful upload and a failed
\* database write; an ingestion whose upload or URL retrieval threw ends with an
\* error and has issued no delete.
C4_DeleteOnlyAfterDatabaseFailure ==
    \A c \in IngestCalls :
        /\ OpsOf(c, "removeObject") # {}
              => Did(c, "putObject", TRUE) /\ Did(c, "asset.create", FALSE)
        /\ (Done(c) /\ (Did(c, "putObject", FALSE) \/ Did(c, "presignedGetObject", FALSE)))
              => calls[c].thrown # <<>> /\ OpsOf(c, "removeObject") = {}

\* C4: a delete is issued only by an ingestion one of whose steps threw, never by
\* one that returned an asset; an ingestion whose upload or URL retrieval threw
\* ends with an error after issuing exactly one delete, at its derived path.
C4_DeleteAfterAnyFailure ==
    \A c \in IngestCalls :
        /\ OpsOf(c, "removeObject") # {}
              => calls[c].caught # <<>> /\ calls[c].returned = <<>>
        /\ (Done(c) /\ calls[c].returned # <<>>) => OpsOf(c, "removeObject") = {}
        /\ (Done(c) /\ (Did(c, "putObject", FALSE) \/ Did(c, "presignedGetObject", FALSE)))
              => /\ calls[c].thrown # <<>>
                 /\ ~calls[c].response[1].body.success
                 /\ Cardinality(OpsOf(c, "removeObject")) = 1
                 /\ \A d \in OpsOf(c, "removeObject") :
                        calls[c].trace[d].name = calls[c].storedPath

C4_Witness ==
    \E c \in IngestCalls :
        /\ Done(c) /\ Did(c, "putObject", FALSE)
        /\ OpsOf(c, "removeObject") # {}

\* the path of an asset ingested without metadata
UnclassifiedPathOf(c) ==
    AssetsDir \o Slash \o UnclassifiedDir \o Slash \o calls[c].assetUuid \o ExtName(calls[c].file.name)

SomeFieldAbsentOrEmpty(body) ==
    \E f \in MetaFieldSet : f \notin DOMAIN body \/ body[f] = <<>>

\* C5: an ingest request with a valid file and at least one of the five fields
\* absent or empty is ingested as unclassified: every object name it uses, and the
\* stored_fullpath of its row, is assets/unclassified/{uuid}{extension}; its row
\* has no metadata and no asset_meta_base row is created for it.
C5_PartialMetadataIsUnclassified ==
    \A c \in IngestCalls :
        (calls[c].file.isFile /\ SomeFieldAbsentOrEmpty(calls[c].body))
        => /\ calls[c].metaData = <<>>
           /\ \A i \in 1..Len(calls[c].trace) :
                 calls[c].trace[i].op \in {"putObject", "presignedGetObject", "removeObject"}
                    => calls[c].trace[i].name = UnclassifiedPathOf(c)
           /\ calls[c].asset # <<>>
                 => /\ calls[c].asset[1].asset.stored_fullpath = UnclassifiedPathOf(c)
                    /\ calls[c].asset[1].meta_base = <<>>
                    /\ ~\E mr \in metas : mr.asset_id = calls[c].assetUuid

C5_Witness ==
    \E c \in IngestCalls :
        /\ Done(c) /\ calls[c].returned # <<>>
        /\ "asset_camera" \in DOMAIN calls[c].body /\ calls[c].body["asset_camera"] = <<>>
        /\ "asset_type" \in DOMAIN calls[c].body /\ calls[c].body["asset_type"] = Img
        /\ "asset_date_label" \notin DOMAIN calls[c].body

AllFieldsNonEmpty(body) ==
    \A f \in MetaFieldSet : f \in DOMAIN body /\ body[f] # <<>>

\* C6: an asset ingested with all five fields non-empty is created and returned
\* with a metadata record whose five fields are the strings of the request,
\* character for character, and the asset_meta_base row stored for it holds the same.
C6_MetadataStoredVerbatim ==
    \A c \in IngestCalls :
        (AllFieldsNonEmpty(calls[c].body) /\ calls[c].asset # <<>>)
        => /\ calls[c].asset[1].meta_base # <<>>
           /\ \A f \in MetaFieldSet : calls[c].asset[1].meta_base[1][f] = calls[c].body[f]
           /\ \E mr \in metas :
                 /\ mr.asset_id = calls[c].assetUuid
                 /\ \A f \in MetaFieldSet : mr[f] = calls[c].body[f]
           /\ calls[c].returned # <<>>
                 => /\ calls[c].returned[1].meta_base # <<>>
                    /\ \A f \in MetaFieldSet :
                          calls[c].returned[1].meta_base[1][f] = calls[c].body[f]
                    /\ calls[c].response[1].body.data = calls[c].returned

C6_Witness ==
    \E c \in IngestCalls :
        /\ Done(c) /\ calls[c].returned # <<>>
        /\ calls[c].returned[1].meta_base # <<>>
        /\ calls[c].returned[1].meta_base[1].asset_location_name = LakeHouseName
        /\ calls[c].returned[1].meta_base[1].asset_camera = <<"A", " ", " ">>

\* the positions of s that are not whitespace following whitespace
RunStarts(s) ==
    SelectSeq([i \in 1..Len(s) |-> i],
              LAMBDA i : ~(IsWhitespace(s[i]) /\ i > 1 /\ IsWhitespace(s[i - 1])))

\* s in lower case with each whitespace run replaced by one underscore
LowerCasedUnderscored(s) ==
    [j \in 1..Len(RunStarts(s)) |->
        IF IsWhitespace(s[RunStarts(s)[j]]) THEN "_" ELSE ToLowerChar(s[RunStarts(s)[j]])]

\* the digits of s, in order
RECURSIVE DigitsOf(_)
DigitsOf(s) ==
    IF s = <<>> THEN <<>>
    ELSE (IF Head(s) \in DigitChars THEN <<Head(s)>> ELSE <<>>) \o DigitsOf(Tail(s))

\* assets/{type}/{class}/{location}/{camera}/{date}/{uuid}{extension} with the given camera segment
ClassifiedPath(m, camera, assetUuid, extension) ==
    AssetsDir \o Slash \o m.asset_type \o Slash \o m.asset_class \o Slash
        \o LowerCasedUnderscored(m.asset_location_name) \o Slash
        \o camera \o Slash
        \o (IF DigitsOf(m.asset_date_label) = <<>> THEN Undated ELSE DigitsOf(m.asset_date_label))
        \o Slash \o assetUuid \o extension

\* C7: with metadata, the stored path is
\* assets/{asset_type}/{asset_class}/{location}/{camera}/{date}/{uuid}{extension},
\* location and camera in lower case with each whitespace run replaced by one
\* underscore, date the digits of the date label or "undated" when it has none.
C7_ClassifiedPath ==
    \A c \in IngestCalls :
        (calls[c].metaData # <<>> /\ calls[c].pc # "received")
        => /\ calls[c].storedPath =
                 ClassifiedPath(calls[c].body, LowerCasedUnderscored(calls[c].body.asset_camera),
                                calls[c].assetUuid, ExtName(calls[c].file.name))
           /\ \A u \in OpsOf(c, "putObject") : calls[c].trace[u].name = calls[c].storedPath
           /\ calls[c].asset # <<>>
                 => calls[c].asset[1].asset.stored_fullpath = calls[c].storedPath

C7_Witness ==
    \E c \in IngestCalls :
        /\ Done(c) /\ calls[c].returned # <<>> /\ calls[c].metaData # <<>>
        /\ calls[c].body.asset_location_name = <<"A", " ", " ">>
        /\ calls[c].body.asset_date_label = <<"-", "-">>

Jpg == <<"j","p","g">>

\* C8 as claimed: "photo.jpg" with img, family, "Lake House", "Canon R5",
\* "2024-07-01" is stored at assets/img/family/lake_house/canonr5/20240701/{id}.jpg
\* with extension "jpg".
C8_ScenarioPathCanonr5 ==
    \A c \in IngestCalls :
        (calls[c].file.isFile /\ calls[c].file.name = Photo /\ calls[c].body = LakeHouse
            /\ calls[c].asset # <<>>)
        => /\ calls[c].asset[1].asset.stored_fullpath =
                 ClassifiedPath(LakeHouse, <<"c","a","n","o","n","r","5">>,
                                calls[c].assetUuid, <<".">> \o Jpg)
           /\ calls[c].asset[1].asset.extension = Jpg

\* C8: "photo.jpg" with img, family, "Lake House", "Canon R5", "2024-07-01" is
\* stored at assets/img/family/lake_house/canon_r5/20240701/{id}.jpg with
\* extension "jpg".
C8_ScenarioPathCanon_r5 ==
    \A c \in IngestCalls :
        (calls[c].file.isFile /\ calls[c].file.name = Photo /\ calls[c].body = LakeHouse
            /\ calls[c].asset # <<>>)
        => /\ calls[c].asset[1].asset.stored_fullpath =
                 AssetsDir \o Slash \o Img \o Slash \o Family \o Slash
                    \o <<"l","a","k","e","_","h","o","u","s","e">> \o Slash
                    \o <<"c","a","n","o","n","_","r","5">> \o Slash
                    \o <<"2","0","2","4","0","7","0","1">> \o Slash
                    \o calls[c].assetUuid \o <<".">> \o Jpg
           /\ \A u \in OpsOf(c, "putObject") :
                 calls[c].trace[u].name = calls[c].asset[1].asset.stored_fullpath
           /\ calls[c].asset[1].asset.extension = Jpg

C8_Witness ==
    \E c \in IngestCalls :
        /\ Done(c) /\ calls[c].returned # <<>>
        /\ calls[c].file.name = Photo /\ calls[c].body = LakeHouse

\* C9: the path the catch block recomputes for the delete is the path the try
\* block derived from the same uuid, file name and metadata: the name of every
\* delete a call issues is the name it uploaded to, the path it derived, and the
\* stored_fullpath of the row it wrote, with or without metadata.
C9_CleanupPathIsUploadPath ==
    \A c \in IngestCalls :
        \A d \in OpsOf(c, "removeObject") :
            /\ calls[c].trace[d].name = calls[c].storedPath
            /\ \A u \in OpsOf(c, "putObject") : calls[c].trace[d].name = calls[c].trace[u].name
            /\ calls[c].asset # <<>>
                  => calls[c].trace[d].name = calls[c].asset[1].asset.stored_fullpath

C9_Witness ==
    \E c \in IngestCalls :
        /\ Done(c) /\ Did(c, "putObject", TRUE) /\ OpsOf(c, "removeObject") # {}
        /\ calls[c].metaData # <<>>
        /\ calls[c].body.asset_location_name = <<"a", "\t", " ", "B">>
        /\ calls[c].file.name = PhotoUpper

\* C10: an upsert that reached the controller for an asset id with no assets row,
\* and whose lookup was answered, ends with ServerError 404 and the response
\* 404 with success false, having made no call but that lookup; and the step that
\* ends such a call changes neither table.
C10_UpsertUnknownAsset ==
    /\ [](\A c \in UpsertCalls :
            (Done(c) /\ Did(c, "asset.findUnique", TRUE)
                /\ {a \in assets : a.uuid = calls[c].assetUuid} = {})
            => /\ calls[c].thrown = <<ServerErrorOf("Asset not found", StatusNotFound)>>
               /\ calls[c].response[1].status = StatusNotFound
               /\ ~calls[c].response[1].body.success
               /\ Len(calls[c].trace) = 1)
    /\ [][\A c \in DOMAIN calls :
            (calls[c].op = "upsert" /\ calls[c].pc = "find" /\ calls'[c].pc = "done"
                /\ Did(c, "asset.findUnique", TRUE)'
                /\ {a \in assets : a.uuid = calls[c].assetUuid} = {})
            => (assets' = assets /\ metas' = metas /\ objects' = objects
                    /\ calls'[c].response[1].status = StatusNotFound)]_vars

C10_Witness ==
    \E c \in UpsertCalls :
        /\ Done(c) /\ calls[c].assetUuid = UnknownUuid
        /\ calls[c].response[1].status = StatusNotFound
        /\ assets # {}

\* C11: an upsert request in which one of the five fields was not sent or was
\* sent empty is answered 400 with success false at once, its call having made
\* no database call at all, and the fields its error names are exactly the
\* fields that were not sent or were empty, whether the body schema or the
\* handler rejected it; and the step that answers it changes no table.
FieldsNotSupplied(body) == {f \in MetaFieldSet : f \notin DOMAIN body \/ body[f] = <<>>}

NamedFields(response) ==
    IF "error" \in DOMAIN response.body
    THEN response.body.error[2]
    ELSE response.body.content.details.missing_required_fields

C11_MissingFieldsRejected ==
    /\ [](\A c \in UpsertCalls :
            FieldsNotSupplied(calls[c].body) # {}
            => /\ Done(c)
               /\ calls[c].response[1].status = StatusBadRequest
               /\ ~calls[c].response[1].body.success
               /\ calls[c].trace = <<>>
               /\ {NamedFields(calls[c].response[1])[i] :
                        i \in 1..Len(NamedFields(calls[c].response[1]))}
                     = FieldsNotSupplied(calls[c].body)
               /\ Len(NamedFields(calls[c].response[1]))
                     = Cardinality(FieldsNotSupplied(calls[c].body)))
    /\ [][\A c \in DOMAIN calls' :
            (c \notin DOMAIN calls /\ calls'[c].op = "upsert"
                /\ FieldsNotSupplied(calls'[c].body) # {})
            => (assets' = assets /\ metas' = metas)]_vars

C11_Witness ==
    /\ \E c \in UpsertCalls :
        /\ Done(c)
        /\ calls[c].body = Emptied(Without(LakeHouse, {"asset_type"}), {"asset_date_label", "asset_class"})
        /\ calls[c].assetUuid = Uuid(0)
    /\ \E c \in UpsertCalls :
        /\ Done(c) /\ calls[c].body = Emptied(Studio, {"asset_camera"})

\* C12: with no upsert running beside it, the write of upsertMetadata on an
\* existing asset adds one row linked to the asset, holding the five fields of
\* the request, when the asset has none, and otherwise rewrites the five fields
\* of the asset's row, which keeps its id, and touches no other row; and the
\* asset the call returns is that asset, with metadata equal to the request in
\* all five fields.
MetaMatches(mr, m) == \A f \in MetaFieldSet : mr[f] = m[f]

MetaRowsOf(rows, uuid) == {mr \in rows : mr.asset_id = uuid}

C12_UpsertCreatesOrReplaces ==
    /\ [](\A c \in UpsertCalls :
            (Done(c) /\ calls[c].returned # <<>>)
            => /\ calls[c].returned[1].asset.uuid = calls[c].assetUuid
               /\ calls[c].returned[1].meta_base # <<>>
               /\ calls[c].returned[1].meta_base[1].asset_id = calls[c].assetUuid
               /\ MetaMatches(calls[c].returned[1].meta_base[1], calls[c].body))
    /\ [][\A c \in DOMAIN calls :
            (calls[c].op = "upsert" /\ calls[c].pc = "upsertWrite" /\ calls'[c].pc = "reread")
            => LET uuid == calls[c].assetUuid
               IN  /\ \E a \in assets : a.uuid = uuid
                   /\ metas' \ MetaRowsOf(metas', uuid) = metas \ MetaRowsOf(metas, uuid)
                   /\ \E new \in metas' :
                        /\ MetaRowsOf(metas', uuid) = {new}
                        /\ MetaMatches(new, calls[c].body)
                        /\ IF MetaRowsOf(metas, uuid) = {}
                           THEN \A mr \in metas : mr.id # new.id
                           ELSE \E old \in metas : MetaRowsOf(metas, uuid) = {old} /\ new.id = old.id]_vars

C12_Witness ==
    \E c, d \in UpsertCalls :
        /\ c < d /\ Done(c) /\ Done(d)
        /\ calls[c].assetUuid = Uuid(0) /\ calls[d].assetUuid = Uuid(0)
        /\ calls[c].body = Studio /\ calls[d].body = LakeHouse
        /\ calls[c].existing = <<>> /\ calls[d].existing # <<>>
        /\ calls[c].returned # <<>> /\ calls[d].returned # <<>>

\* C13: when a request to upsert metadata is followed at once by the same
\* request for the same asset, and both are answered with the asset, the write
\* of the second leaves the asset_meta_base table as the first left it, rows and
\* values, and the two calls return the same asset.
SameUpsertBefore(c) ==
    /\ c > 1
    /\ calls[c - 1].op = "upsert"
    /\ calls[c - 1].assetUuid = calls[c].assetUuid
    /\ calls[c - 1].body = calls[c].body
    /\ calls[c - 1].returned # <<>>

C13_UpsertIdempotent ==
    /\ [](\A c \in UpsertCalls :
            (Done(c) /\ calls[c].returned # <<>> /\ SameUpsertBefore(c))
            => /\ calls[c].returned = calls[c - 1].returned
               /\ calls[c].returned[1].meta_base # <<>>)
    /\ [][\A c \in DOMAIN calls :
            (calls[c].op = "upsert" /\ calls[c].pc = "upsertWrite" /\ calls'[c].pc = "reread"
                /\ SameUpsertBefore(c))
            => (/\ metas' = metas
                /\ calls[c - 1].returned[1].meta_base # <<>>
                /\ MetaRowsOf(metas', calls[c].assetUuid)
                      = {calls[c - 1].returned[1].meta_base[1]})]_vars

C13_Witness ==
    \E c \in UpsertCalls :
        /\ Done(c) /\ calls[c].returned # <<>> /\ SameUpsertBefore(c)
        /\ calls[c].body = Studio /\ calls[c].assetUuid = Uuid(0)
        /\ Cardinality(metas) = 1

\* C14: in every reachable state, however ingestions and upserts interleave,
\* no asset has more than one asset_meta_base row and every asset_meta_base row
\* has the uuid of an assets row as its asset_id.
C14_AtMostOneMetadata ==
    /\ \A a \in assets : Cardinality(MetaRowsOf(metas, a.uuid)) <= 1
    /\ \A mr \in metas : \E a \in assets : a.uuid = mr.asset_id

C14_Witness ==
    \E c, d \in UpsertCalls :
        /\ c # d /\ calls[c].assetUuid = calls[d].assetUuid
        /\ calls[c].existing = <<>> /\ calls[d].existing = <<>>
        /\ Did(c, "assetMetaBase.upsert", TRUE)
        /\ calls[d].pc = "upsertWrite"

\* C15: when two upsertMetadata calls on the same existing asset have both
\* ended, the database having answered every query it could, both have
\* returned the asset, and the asset's stored metadata is, in all five fields,
\* that of one of the requests made for it.
DatabaseFailed(c) ==
    calls[c].caught \in {<<FindUniqueError>>, <<UpsertError>>}

C15_ConcurrentUpsertsBothComplete ==
    \A c, d \in UpsertCalls :
        (/\ c # d /\ calls[c].assetUuid = calls[d].assetUuid
         /\ \E a \in assets : a.uuid = calls[c].assetUuid
         /\ Done(c) /\ Done(d)
         /\ calls[c].metaData # <<>> /\ calls[d].metaData # <<>>
         /\ ~DatabaseFailed(c) /\ ~DatabaseFailed(d))
        => /\ calls[c].returned # <<>> /\ calls[d].returned # <<>>
           /\ \E e \in UpsertCalls, mr \in metas :
                /\ calls[e].assetUuid = calls[c].assetUuid
                /\ MetaRowsOf(metas, calls[c].assetUuid) = {mr}
                /\ MetaMatches(mr, calls[e].body)

\* C16: every message published is an asset_ingested event of one ingestion,
\* whose assets row had been written when it was published and whose upload,
\* URL retrieval and create did not fail; no ingestion has two of them; its
\* asset part has the uuid, file name, url, extension and size of that row, and
\* its meta is null when the ingestion accepted no metadata and otherwise the
\* row written with the asset, holding the five fields accepted.
EventsOf(c) ==
    {i \in 1..Len(published) : published[i].message.asset.uuid = calls[c].assetUuid}

FailedBeforePublish(c) ==
    \/ Did(c, "putObject", FALSE)
    \/ Did(c, "presignedGetObject", FALSE)
    \/ Did(c, "asset.create", FALSE)

EventOfPersisted(e, c) ==
    /\ e.channel = "asset_ingested"
    /\ Did(c, "asset.create", TRUE)
    /\ \E a \in assets :
        /\ a.uuid = e.message.asset.uuid
        /\ a.imported_filename = e.message.asset.filename
        /\ a.stored_url = e.message.asset.url
        /\ a.extension = e.message.asset.extension
        /\ a.size = e.message.asset.size
    /\ ((calls[c].metaData = <<>>) <=> (e.message.meta = <<>>))
    /\ (e.message.meta # <<>>
          => /\ MetaMatches(e.message.meta[1], calls[c].metaData[1])
             /\ e.message.meta[1].asset_id = e.message.asset.uuid)

EventsWellFormed ==
    /\ \A c \in IngestCalls :
        /\ Cardinality(EventsOf(c)) <= 1
        /\ (FailedBeforePublish(c) => EventsOf(c) = {})
    /\ \A i \in 1..Len(published) :
        \E c \in IngestCalls : i \in EventsOf(c) /\ EventOfPersisted(published[i], c)

C16_EventAtMostOnceAfterPersist ==
    /\ []EventsWellFormed
    /\ [][published' # published
            => \E a \in assets :
                /\ published' = Append(published, published'[Len(published')])
                /\ a.uuid = published'[Len(published')].message.asset.uuid]_vars

C16_Witness ==
    /\ Len(published) = 2
    /\ published[1].message.meta # <<>>
    /\ published[2].message.meta = <<>>
    /\ \A c \in IngestCalls : Done(c)

\* C17: an ingest request without a file part, or whose file is not a File, is
\* answered 400 with success false at once: its call makes no call of the
\* object store, the database or the broker, and the step that answers it
\* leaves the bucket, both tables and the published events as they were.
C17_NoFileRejected ==
    /\ [](\A c \in IngestCalls :
            ~calls[c].file.isFile
            => /\ Done(c)
               /\ calls[c].response[1].status = StatusBadRequest
               /\ calls[c].response[1].body.success = FALSE
               /\ calls[c].trace = <<>>
               /\ calls[c].asset = <<>> /\ calls[c].returned = <<>>)
    /\ [][\A c \in DOMAIN calls' :
            (c \notin DOMAIN calls /\ calls'[c].op = "ingest" /\ ~calls'[c].file.isFile)
            => (objects' = objects /\ assets' = assets /\ metas' = metas
                    /\ published' = published)]_vars
    /\ [](calls # <<>> /\ ~calls[1].file.isFile
            => (objects = PutObject({}, EarlierPath, EarlierFile) /\ assets = {EarlierAsset}
                    /\ metas = {} /\ published = <<>>))

C17_Witness ==
    \E c \in IngestCalls :
        /\ Done(c) /\ calls[c].file = NotAFile /\ calls[c].body = LakeHouse
        /\ calls[c].response[1] = NoFileResponse

\* C18: whenever a step of ingestAsset or upsertMetadata failed, the call ends
\* without returning an asset and throws one ServerError, which carries a
\* message and a numeric status code: the status the failure was raised with
\* when it was raised as a ServerError, 500 for every other failure; and the
\* route answers with that status, success false and that message.
Failed(c) == calls[c].caught # <<>>

C18_FailuresAreServerErrors ==
    \A c \in CallIds :
        /\ (Done(c) /\ Failed(c))
            => /\ calls[c].returned = <<>>
               /\ Len(calls[c].thrown) = 1
               /\ calls[c].thrown[1].name = "ServerError"
               /\ calls[c].thrown[1].message # ""
               /\ Len(calls[c].thrown[1].statusCode) = 1
               /\ calls[c].thrown[1].statusCode[1] \in Nat
               /\ calls[c].thrown[1].statusCode[1] =
                     (IF calls[c].caught[1].statusCode # <<>>
                      THEN calls[c].caught[1].statusCode[1]
                      ELSE StatusServerError)
               /\ calls[c].response[1].status = calls[c].thrown[1].statusCode[1]
               /\ calls[c].response[1].body.success = FALSE
               /\ calls[c].response[1].body.error = calls[c].thrown[1].message
        /\ (Done(c) /\ calls[c].trace # <<>> /\ calls[c].returned = <<>>) => Failed(c)
        /\ (Done(c) /\ \E i \in 1..Len(calls[c].trace) : ~calls[c].trace[i].ok) => Failed(c)

C18_Witness ==
    /\ \E c \in UpsertCalls :
        /\ Done(c) /\ Failed(c) /\ calls[c].response[1].status = StatusNotFound
    /\ \E c \in IngestCalls :
        /\ Done(c) /\ calls[c].caught = <<AssetCreateError>>
        /\ calls[c].response[1].status = StatusServerError

\* C19: each of the five endpoints kept for future implementation answers with
\* an object that has a boolean success and a message, the message saying
\* "Not yet implemented"; its call makes no call of a collaborator, and the step
\* that answers it leaves both tables, the bucket and the published events as
\* they were.
StubCalls == {c \in CallIds : calls[c].op \in StubOps}

C19_StubsMarkedAndInert ==
    /\ [](\A c \in StubCalls :
            /\ Done(c)
            /\ {"success", "message"} \subseteq DOMAIN calls[c].response[1].body
            /\ calls[c].response[1].body.success \in BOOLEAN
            /\ calls[c].response[1].body.message[Len(calls[c].response[1].body.message)]
                  = NotYetImplemented
            /\ calls[c].trace = <<>>)
    /\ [][\A c \in DOMAIN calls' :
            (c \notin DOMAIN calls /\ calls'[c].op \in StubOps)
            => (assets' = assets /\ metas' = metas /\ objects' = objects
                    /\ published' = published)]_vars

C19_Witness ==
    /\ Len(calls) = 2
    /\ calls[1].op = "ingest" /\ Did(1, "asset.create", TRUE) /\ calls[1].metaData # <<>>
    /\ calls[2].op = "delete" /\ calls[2].assetUuid = calls[1].assetUuid
    /\ \E a \in assets : a.uuid = calls[2].assetUuid
    /\ \E mr \in metas : mr.asset_id = calls[2].assetUuid

\* C20: the body of every response given, by a handler that succeeded, by a
\* handler that caught a failure and by onError for a body its schema rejected,
\* has a boolean success, a data or an error, and a message.
C20_EveryResponseHasThreeFields ==
    \A c \in CallIds :
        calls[c].response # <<>>
        => /\ "success" \in DOMAIN calls[c].response[1].body
           /\ calls[c].response[1].body.success \in BOOLEAN
           /\ {"data", "error"} \cap DOMAIN calls[c].response[1].body # {}
           /\ "message" \in DOMAIN calls[c].response[1].body

\* C21: the extension of every assets row written is, in lower case, what
\* follows the last dot of the file name, and is empty when the name has no dot.
AfterLastDot(name) ==
    IF LastIndexOf(name, ".") = 0 THEN <<>>
    ELSE SubSeq(name, LastIndexOf(name, ".") + 1, Len(name))

C21_ExtensionLowerCase ==
    \A c \in IngestCalls :
        calls[c].asset # <<>>
        => calls[c].asset[1].asset.extension = ToLowerCase(AfterLastDot(calls[c].file.name))

\* C22: no step removes or changes an assets row; the receipt of an upsert
\* request and every step of an upsertMetadata call, whatever its outcome,
\* leave the assets table and the bucket as they were; and the asset that was
\* ingested as unclassified has its assets/unclassified/ path in the row and in
\* the asset returned once metadata is attached to it.
C22_AssetRowsImmutable ==
    /\ [][assets \subseteq assets']_vars
    /\ [][\A c \in DOMAIN calls' :
            (calls'[c].op = "upsert" /\ (c \notin DOMAIN calls \/ calls'[c] # calls[c]))
            => (assets' = assets /\ objects' = objects)]_vars
    /\ [](\A c \in UpsertCalls :
            (calls[c].assetUuid = Uuid(0) /\ calls[c].returned # <<>>)
            => /\ calls[c].returned[1].asset = EarlierAsset
               /\ EarlierAsset \in assets
               /\ EarlierAsset.stored_fullpath = AssetsDir \o Slash \o UnclassifiedDir \o Slash
                        \o Uuid(0) \o <<".", "m", "o", "v">>)

C22_Witness ==
    \E c, d \in UpsertCalls :
        /\ calls[c].assetUuid = Uuid(0) /\ calls[c].returned # <<>>
        /\ calls[c].returned[1].meta_base # <<>>
        /\ calls[d].assetUuid = Uuid(0) /\ Done(d) /\ calls[d].caught = <<UniqueConstraintError>>

\* C23: two ingestAsset calls, however their steps interleave and also when
\* they have the same file name and metadata, have different uuids and
\* different stored paths; every delete a call issues names its own stored
\* path, which is the path of no other call and of no row of another call; and
\* the cleanup step of a call leaves both tables and every object at another
\* path as they were.
Began(c) == calls[c].op = "ingest" /\ calls[c].storedPath # <<>>

C23_IngestionsIsolated ==
    /\ [](\A c, d \in IngestCalls :
            (c # d /\ Began(c) /\ Began(d))
            => /\ calls[c].assetUuid # calls[d].assetUuid
               /\ calls[c].storedPath # calls[d].storedPath
               /\ \A i \in OpsOf(c, "removeObject") :
                    /\ calls[c].trace[i].name = calls[c].storedPath
                    /\ calls[c].trace[i].name # calls[d].storedPath
                    /\ \A a \in assets :
                        a.uuid # calls[c].assetUuid => a.stored_fullpath # calls[c].trace[i].name)
    /\ [][\A c \in DOMAIN calls :
            (calls[c].op = "ingest" /\ calls[c].pc = "cleanup" /\ calls'[c].pc = "done")
            => /\ assets' = assets /\ metas' = metas
               /\ \A o \in objects : o.name # calls[c].storedPath => o \in objects'
               /\ objects' \subseteq objects]_vars

C23_Witness ==
    \E c, d \in IngestCalls :
        /\ c # d /\ Done(c) /\ Done(d)
        /\ calls[c].file = calls[d].file /\ calls[c].body = LakeHouse /\ calls[d].body = LakeHouse
        /\ Did(c, "putObject", TRUE) /\ Did(c, "asset.create", FALSE) /\ Did(c, "removeObject", TRUE)
        /\ calls[d].returned # <<>> /\ ObjectExists(calls[d].storedPath)
        /\ ~ObjectExists(calls[c].storedPath)

\* C24: the external calls an ingestAsset call has made are, one after the
\* other, a beginning of upload, URL retrieval, database create, publish, each
\* made once, every one but the last of them successful, followed by at most
\* one delete, which is made only after one of them failed and ends the call;
\* a call that has ended has returned an asset or thrown; and, every awaited
\* call being answered, every ingestAsset call ends.
StepOrder == <<"putObject", "presignedGetObject", "asset.create", "publish">>

StepsInOrder(trace) ==
    LET deletes == {i \in 1..Len(trace) : trace[i].op = "removeObject"}
        steps == Len(trace) - Cardinality(deletes)
    IN  /\ Cardinality(deletes) <= 1
        /\ deletes \subseteq {Len(trace)}
        /\ steps <= Len(StepOrder)
        /\ \A i \in 1..steps : trace[i].op = StepOrder[i]
        /\ \A i \in 1..(steps - 1) : trace[i].ok
        /\ deletes # {} => (steps >= 1 /\ ~trace[steps].ok)

C24_IngestTerminatesInOrder ==
    /\ [](\A c \in IngestCalls :
            /\ StepsInOrder(calls[c].trace)
            /\ (Done(c) /\ calls[c].file.isFile)
                => /\ (calls[c].returned # <<>>) # (calls[c].thrown # <<>>)
                   /\ calls[c].returned # <<>> => Len(calls[c].trace) = Len(StepOrder)
                   /\ calls[c].thrown # <<>> => OpsOf(c, "removeObject") # {})
    /\ \A c \in 1..MaxCalls :
            (c \in CallIds /\ calls[c].op = "ingest") ~> (c \in CallIds /\ calls[c].pc = "done")

C24_Witness ==
    /\ \E c \in IngestCalls :
        /\ Done(c) /\ Len(calls[c].trace) = 5 /\ Did(c, "publish", FALSE)
    /\ \E c \in IngestCalls :
        /\ Done(c) /\ calls[c].returned # <<>>

\* C25: once an ingestAsset call has ended, with an asset returned or an error
\* thrown at any step, the stored_fullpath of every assets row, that of its
\* own row first, names an object of the bucket.
C25_RowsNameStoredObjects ==
    \A c \in IngestCalls :
        (Done(c) /\ calls[c].file.isFile)
        => \A a \in assets :
            (a.uuid = calls[c].assetUuid \/ \A d \in IngestCalls : a.uuid # calls[d].assetUuid)
            => ObjectExists(a.stored_fullpath)

\* C26: however calls of initialize, uploadObject, getPresignedUrl and
\* deleteObject on the singleton interleave, at most one bucket is created,
\* no call ends with the error of a makeBucket that found the bucket made by
\* another call, and no creation of the bucket is under way once initialized
\* is true.
C26_LazyInitializationSafe ==
    /\ minio.made <= 1
    /\ \A k \in Callers : minio.callers[k].error # <<BucketAlreadyOwnedError>>
    /\ minio.initialized => \A k \in Callers : minio.callers[k].pc # "makeBucket"

====
